---- MODULE Spec2Model ----
(***************************************************************************)
(* Model of tags/pyclp_0_2/setup.py: the module-level script that locates  *)
(* the ECLiPSe installation (ECLIPSEDIR or an interactive prompt loop),    *)
(* selects the architecture tag from platform.system(), derives the        *)
(* include/library directories with os.path.join and builds the            *)
(* distutils Extension handed to setup().                                  *)
(*                                                                         *)
(* A text (a path, a tag) is a sequence of tokens: the characters "/",     *)
(* "\\", ":" and "a" for what the environment or the operator supplies,    *)
(* and whole words ("include", "i386_linux") for the script's literals.    *)
(***************************************************************************)
EXTENDS Integers, Sequences, FiniteSets, TLC

\* ---- bounds ------------------------------------------------------------
MaxLen == 1
MaxPrompts == 2

\* ---- the world outside the script --------------------------------------
Chars == {"/", "\\", ":", "a"}

RECURSIVE TextsOfLen(_)
TextsOfLen(n) ==
    IF n = 0 THEN {<<>>}
    ELSE {Append(t, c) : t \in TextsOfLen(n - 1), c \in Chars}

Paths == UNION {TextsOfLen(n) : n \in 0..MaxLen}

Platforms == {"Linux", "Windows", "Darwin"}

\* a name that is not bound / a key that is not in environ
Undefined == <<"<undefined>">>
NoSystem == "<undefined>"
NoModule == [name |-> "<undefined>"]

PromptText == "ECLIPSEDIR environmental variable is not defined \nplease provide path to ECLiPSe installation: "

VARIABLES
    environ,              \* value of environ["ECLIPSEDIR"], or Undefined
    pc,                   \* the line the script is about to run
    eclipsedir,
    system,               \* what platform.system() returned
    arch,
    eclise_include_path,
    eclipse_lib_path,
    pyclp_module,
    ext_modules,          \* the ext_modules argument setup() received
    stdin,                \* the lines input() has returned so far
    stdout,               \* what input() and print() have written
    exists_calls          \* the os.path.exists calls made: <<path, result>>

vars == <<environ, pc, eclipsedir, system, arch, eclise_include_path,
          eclipse_lib_path, pyclp_module, ext_modules, stdin, stdout,
          exists_calls>>

\* ---- library functions -------------------------------------------------
Last(s) == s[Len(s)]

\* os.path.exists(p): the empty path never exists (stat fails), any other
\* path may or may not exist when it is looked up
exists(p) == IF p = <<>> THEN {FALSE} ELSE {TRUE, FALSE}

\* a join that always inserts the separator
posix_join2_Naive(a, b) == a \o <<"/">> \o b

\* posixpath.join(a, b) for one further component
posix_join2(a, b) ==
    IF b # <<>> /\ b[1] = "/" THEN b
    ELSE IF a = <<>> \/ Last(a) = "/" THEN a \o b
    ELSE a \o <<"/">> \o b

\* ntpath.join(a, b) for one further component without a drive
nt_join2(a, b) ==
    IF a = <<>> THEN b
    ELSE IF b # <<>> /\ b[1] \in {"/", "\\"} THEN b
    ELSE IF Last(a) \in {"/", "\\"} THEN a \o b
    ELSE IF Last(a) = ":" THEN a \o b
    ELSE a \o <<"\\">> \o b

\* os.path is ntpath on Windows and posixpath elsewhere
join(sys, a, b, c) ==
    IF sys = "Windows" THEN nt_join2(nt_join2(a, b), c)
    ELSE posix_join2(posix_join2(a, b), c)

\* ---- the script --------------------------------------------------------
\* the chain with the else branch falling back to the Linux tag
ArchOf_Default(sys) ==
    IF sys = "Windows" THEN <<"i386_nt">> ELSE <<"i386_linux">>

\* lines 45-51: the if/elif/else chain; Undefined is the else branch
ArchOf(sys) ==
    IF sys = "Linux" THEN <<"i386_linux">>
    ELSE IF sys = "Windows" THEN <<"i386_nt">>
    ELSE Undefined

\* the Extension without the local source directory among the include dirs
Extension_NoLocalInclude(lib_path, include_path) ==
    [name         |-> "pyclp.pyclp",
     sources      |-> <<"src/pyclp/pyclp.pyx">>,
     library_dirs |-> <<lib_path>>,
     libraries    |-> <<"eclipse">>,
     include_dirs |-> <<include_path>>]

\* lines 55-60
Extension(lib_path, include_path) ==
    [name         |-> "pyclp.pyclp",
     sources      |-> <<"src/pyclp/pyclp.pyx">>,
     library_dirs |-> <<lib_path>>,
     libraries    |-> <<"eclipse">>,
     include_dirs |-> <<include_path, <<"src/pyclp/">> >>]

Init ==
    /\ environ \in Paths \cup {Undefined}
    /\ pc = "L34"
    /\ eclipsedir = Undefined
    /\ system = NoSystem
    /\ arch = Undefined
    /\ eclise_include_path = Undefined
    /\ eclipse_lib_path = Undefined
    /\ pyclp_module = NoModule
    /\ ext_modules = <<>>
    /\ stdin = <<>>
    /\ stdout = <<>>
    /\ exists_calls = <<>>

\* line 34 with the platform branch reached before any prompt
TestEnviron_SkipPrompt ==
    /\ pc = "L34"
    /\ pc' = IF environ = Undefined THEN "L45" ELSE "L43"
    /\ eclipsedir' = IF environ = Undefined THEN <<>> ELSE eclipsedir
    /\ UNCHANGED <<environ, system, arch, eclise_include_path,
                   eclipse_lib_path, pyclp_module, ext_modules, stdin,
                   stdout, exists_calls>>

\* line 34: if "ECLIPSEDIR" not in environ
TestEnviron ==
    /\ pc = "L34"
    /\ pc' = IF environ = Undefined THEN "L36" ELSE "L43"
    /\ UNCHANGED <<environ, eclipsedir, system, arch, eclise_include_path,
                   eclipse_lib_path, pyclp_module, ext_modules, stdin,
                   stdout, exists_calls>>

\* the loop leaving on any line, whatever os.path.exists returned
Prompt_AcceptsAny ==
    /\ pc = "L36"
    /\ Len(stdin) < MaxPrompts
    /\ \E line \in Paths : \E found \in exists(line) :
        /\ stdin' = Append(stdin, line)
        /\ eclipsedir' = line
        /\ exists_calls' = Append(exists_calls, <<line, found>>)
        /\ stdout' = Append(stdout, PromptText)
        /\ pc' = "L45"
    /\ UNCHANGED <<environ, system, arch, eclise_include_path,
                   eclipse_lib_path, pyclp_module, ext_modules>>

\* the loop without the print in the else branch
Prompt_Silent ==
    /\ pc = "L36"
    /\ Len(stdin) < MaxPrompts
    /\ \E line \in Paths : \E found \in exists(line) :
        /\ stdin' = Append(stdin, line)
        /\ eclipsedir' = line
        /\ exists_calls' = Append(exists_calls, <<line, found>>)
        /\ stdout' = Append(stdout, PromptText)
        /\ pc' = IF found THEN "L45" ELSE "L36"
    /\ UNCHANGED <<environ, system, arch, eclise_include_path,
                   eclipse_lib_path, pyclp_module, ext_modules>>

\* the loop with a break in the else branch too
Prompt_BreakOnInvalid ==
    /\ pc = "L36"
    /\ Len(stdin) < MaxPrompts
    /\ \E line \in Paths : \E found \in exists(line) :
        /\ stdin' = Append(stdin, line)
        /\ eclipsedir' = line
        /\ exists_calls' = Append(exists_calls, <<line, found>>)
        /\ stdout' = IF found THEN Append(stdout, PromptText)
                     ELSE stdout \o <<PromptText, "Invalid Path">>
        /\ pc' = "L45"
    /\ UNCHANGED <<environ, system, arch, eclise_include_path,
                   eclipse_lib_path, pyclp_module, ext_modules>>

\* lines 35-41: one iteration of the while(1) loop, input() returning a line
Prompt ==
    /\ pc = "L36"
    /\ Len(stdin) < MaxPrompts
    /\ \E line \in Paths : \E found \in exists(line) :
        /\ stdin' = Append(stdin, line)
        /\ eclipsedir' = line
        /\ exists_calls' = Append(exists_calls, <<line, found>>)
        /\ IF found
           THEN /\ stdout' = Append(stdout, PromptText)
                /\ pc' = "L45"
           ELSE /\ stdout' = stdout \o <<PromptText, "Invalid Path">>
                /\ pc' = "L36"
    /\ UNCHANGED <<environ, system, arch, eclise_include_path,
                   eclipse_lib_path, pyclp_module, ext_modules>>

\* lines 36-37: input() meets the end of the input stream and raises
\* EOFError, which nothing catches
PromptEOF ==
    /\ pc = "L36"
    /\ stdout' = Append(stdout, PromptText)
    /\ pc' = "EOFError"
    /\ UNCHANGED <<environ, eclipsedir, system, arch, eclise_include_path,
                   eclipse_lib_path, pyclp_module, ext_modules, stdin,
                   exists_calls>>

\* line 43 with the value looked up on the filesystem before it is used
UseEnviron_Validated ==
    /\ pc = "L43"
    /\ \E found \in exists(environ) :
        /\ exists_calls' = Append(exists_calls, <<environ, found>>)
        /\ eclipsedir' = environ
        /\ IF found
           THEN pc' = "L45" /\ UNCHANGED stdout
           ELSE pc' = "L36" /\ stdout' = Append(stdout, "Invalid Path")
    /\ UNCHANGED <<environ, system, arch, eclise_include_path,
                   eclipse_lib_path, pyclp_module, ext_modules, stdin>>

\* line 43: eclipsedir=environ["ECLIPSEDIR"]
UseEnviron ==
    /\ pc = "L43"
    /\ eclipsedir' = environ
    /\ pc' = "L45"
    /\ UNCHANGED <<environ, system, arch, eclise_include_path,
                   eclipse_lib_path, pyclp_module, ext_modules, stdin,
                   stdout, exists_calls>>

\* lines 45-51: platform.system() and the branch on it
SelectArch ==
    /\ pc = "L45"
    /\ \E sys \in Platforms :
        /\ system' = sys
        /\ IF ArchOf(sys) # Undefined
           THEN /\ arch' = ArchOf(sys)
                /\ pc' = "L53"
                /\ UNCHANGED stdout
           ELSE /\ stdout' = Append(stdout, "Platform not supported")
                /\ pc' = "raise"
                /\ UNCHANGED arch
    /\ UNCHANGED <<environ, eclipsedir, eclise_include_path,
                   eclipse_lib_path, pyclp_module, ext_modules, stdin,
                   exists_calls>>

\* lines 53-54 with the include path bound to the name eclipsedir
DerivePaths_Rebinds ==
    /\ pc = "L53"
    /\ eclipsedir' = join(system, eclipsedir, <<"include">>, arch)
    /\ eclise_include_path' = join(system, eclipsedir, <<"include">>, arch)
    /\ eclipse_lib_path' = join(system, eclipsedir, <<"lib">>, arch)
    /\ pc' = "L55"
    /\ UNCHANGED <<environ, system, arch, pyclp_module,
                   ext_modules, stdin, stdout, exists_calls>>

\* lines 53-54
DerivePaths ==
    /\ pc = "L53"
    /\ eclise_include_path' = join(system, eclipsedir, <<"include">>, arch)
    /\ eclipse_lib_path' = join(system, eclipsedir, <<"lib">>, arch)
    /\ pc' = "L55"
    /\ UNCHANGED <<environ, eclipsedir, system, arch, pyclp_module,
                   ext_modules, stdin, stdout, exists_calls>>

\* lines 55-60
BuildExtension ==
    /\ pc = "L55"
    /\ pyclp_module' = Extension(eclipse_lib_path, eclise_include_path)
    /\ pc' = "L62"
    /\ UNCHANGED <<environ, eclipsedir, system, arch, eclise_include_path,
                   eclipse_lib_path, ext_modules, stdin, stdout,
                   exists_calls>>

\* lines 62-75: setup(..., ext_modules = [pyclp_module], ...)
Setup ==
    /\ pc = "L62"
    /\ ext_modules' = <<pyclp_module>>
    /\ pc' = "exit"
    /\ UNCHANGED <<environ, eclipsedir, system, arch, eclise_include_path,
                   eclipse_lib_path, pyclp_module, stdin, stdout,
                   exists_calls>>

Next ==
    \/ TestEnviron
    \/ Prompt
    \/ PromptEOF
    \/ UseEnviron
    \/ SelectArch
    \/ DerivePaths
    \/ BuildExtension
    \/ Setup

Spec == Init /\ [][Next]_vars

\* The interpreter always runs the script's next statement; only input()
\* waits for someone else, so the prompt steps carry no fairness.
LiveSpec ==
    Spec /\ WF_vars(TestEnviron \/ UseEnviron \/ SelectArch \/ DerivePaths
                    \/ BuildExtension \/ Setup)

TypeOK ==
    /\ pc \in {"L34", "L36", "L43", "L45", "L53", "L55", "L62", "exit",
               "raise", "EOFError"}
    /\ environ \in Paths \cup {Undefined}
    /\ Len(stdin) <= MaxPrompts

\* ---- vocabulary of the properties --------------------------------------
Count(s, x) == Cardinality({i \in 1..Len(s) : s[i] = x})

Interactive == environ = Undefined

\* the descriptor has been built (pyclp_module is bound)
Emitted == pc \in {"L62", "exit"}

\* the root has been acquired: the script is past lines 34-43
RootAcquired == pc \in {"L45", "L53", "L55", "L62", "exit", "raise"}

\* some line the operator supplied was found on the filesystem
Accepted == \E i \in 1..Len(exists_calls) : exists_calls[i][2]

IncludeDir == pyclp_module.include_dirs[1]
LibraryDir == pyclp_module.library_dirs[1]

\* the states of the resolver's state machine, by script position
Stage(p) ==
    CASE p = "L34" -> "Start"
      [] p \in {"L36", "L43"} -> "AcquiringRoot"
      [] p = "L45" -> "DetectingPlatform"
      [] p \in {"L53", "L55"} -> "ArchResolved"
      [] p \in {"L62", "exit"} -> "DescriptorEmitted"
      [] p = "raise" -> "Fatal"
      [] OTHER -> "Aborted"

\* ---- C1 ----------------------------------------------------------------
\* C1 as stated: whenever a descriptor has been emitted for a non-empty
\* root, on either path, the root behind include_dirs[0] and
\* library_dirs[0] has passed the os.path.exists check, and both are the
\* root joined with include/lib and the architecture tag.
C1_Original ==
    (Emitted /\ eclipsedir # <<>>) =>
        /\ \E i \in 1..Len(exists_calls) : exists_calls[i] = <<eclipsedir, TRUE>>
        /\ IncludeDir = join(system, eclipsedir, <<"include">>, arch)
        /\ LibraryDir = join(system, eclipsedir, <<"lib">>, arch)

\* C1 amended: whenever a descriptor has been emitted, both directories are
\* the root joined with include/lib and the architecture tag; on the
\* interactive path the root is the line whose os.path.exists check
\* succeeded; on the environment path the root is the ECLIPSEDIR value and
\* no existence check was made at all.
C1_EmittedRoot ==
    Emitted =>
        /\ IncludeDir = join(system, eclipsedir, <<"include">>, arch)
        /\ LibraryDir = join(system, eclipsedir, <<"lib">>, arch)
        /\ Interactive => /\ exists_calls # <<>>
                          /\ Last(exists_calls) = <<eclipsedir, TRUE>>
        /\ ~Interactive => /\ eclipsedir = environ
                           /\ exists_calls = <<>>

C1_Witness ==
    /\ pc = "exit"
    /\ Interactive
    /\ Len(exists_calls) >= 2
    /\ Last(exists_calls) = <<eclipsedir, TRUE>>

\* ---- C2 ----------------------------------------------------------------
\* C2: once platform.system() has answered, 'Linux' gives the tag
\* i386_linux and 'Windows' gives i386_nt; for any other answer the script
\* is at the raise after printing "Platform not supported", and stays
\* there: no tag, no derived path, no descriptor, nothing handed to setup().
C2_PlatformMapping ==
    /\ system = "Linux" => arch = <<"i386_linux">> /\ pc # "raise"
    /\ system = "Windows" => arch = <<"i386_nt">> /\ pc # "raise"
    /\ system \notin {NoSystem, "Linux", "Windows"} =>
        /\ pc = "raise"
        /\ Last(stdout) = "Platform not supported"
        /\ Count(stdout, "Platform not supported") = 1
        /\ arch = Undefined
        /\ eclise_include_path = Undefined
        /\ eclipse_lib_path = Undefined
        /\ pyclp_module = NoModule
        /\ ext_modules = <<>>
    /\ pc = "raise" => system \notin {NoSystem, "Linux", "Windows"}

C2_Witness == pc = "raise" /\ system = "Darwin"

\* ---- C3 ----------------------------------------------------------------
\* C3: with a non-empty ECLIPSEDIR the root, once assigned, is that value
\* exactly, os.path.exists is never called, no line is read, and neither
\* the prompt nor "Invalid Path" is ever printed.
C3_EnvironVerbatim ==
    (environ # Undefined /\ environ # <<>>) =>
        /\ eclipsedir \in {Undefined, environ}
        /\ RootAcquired => eclipsedir = environ
        /\ exists_calls = <<>>
        /\ stdin = <<>>
        /\ Count(stdout, PromptText) = 0
        /\ Count(stdout, "Invalid Path") = 0

C3_Witness ==
    /\ environ # Undefined
    /\ environ # <<>>
    /\ pc = "exit"
    /\ eclipsedir = environ

\* ---- C4 ----------------------------------------------------------------
\* C4: in interactive mode every line read was looked up once, in order;
\* while in the loop every line read so far was rejected, with one prompt
\* and one "Invalid Path" per line; once the loop is left the root is the
\* last line read, it is the only one found to exist, and with k = the
\* number of lines before it there are exactly k "Invalid Path" and k+1
\* prompts - at every later point, so no further line is read.
C4_PromptLoop ==
    Interactive =>
        /\ Len(exists_calls) = Len(stdin)
        /\ \A i \in 1..Len(stdin) : exists_calls[i][1] = stdin[i]
        /\ pc = "L36" =>
            /\ \A i \in 1..Len(stdin) : ~exists_calls[i][2]
            /\ Count(stdout, "Invalid Path") = Len(stdin)
            /\ Count(stdout, PromptText) = Len(stdin)
        /\ RootAcquired =>
            /\ stdin # <<>>
            /\ eclipsedir = Last(stdin)
            /\ \A i \in 1..Len(stdin) : exists_calls[i][2] <=> i = Len(stdin)
            /\ Count(stdout, "Invalid Path") = Len(stdin) - 1
            /\ Count(stdout, PromptText) = Len(stdin)

C4_Witness ==
    /\ Interactive
    /\ pc = "exit"
    /\ Len(stdin) >= 2
    /\ eclipsedir = Last(stdin)
    /\ Count(stdout, "Invalid Path") = Len(stdin) - 1
    /\ Count(stdout, PromptText) = Len(stdin)

\* ---- C5 ----------------------------------------------------------------
\* C5 as stated: for every non-empty root, a trailing separator included,
\* include_dirs[0] is root + "/include/" + arch and library_dirs[0] is
\* root + "/lib/" + arch.
C5_Original ==
    (Emitted /\ eclipsedir # <<>>) =>
        /\ IncludeDir = eclipsedir \o <<"/", "include", "/">> \o arch
        /\ LibraryDir = eclipsedir \o <<"/", "lib", "/">> \o arch

\* C5 amended: on Linux, for a non-empty root that does not end with "/",
\* include_dirs[0] is root + "/include/" + arch and library_dirs[0] is
\* root + "/lib/" + arch; for a root that ends with "/" no second separator
\* is inserted (root + "include/" + arch); on Windows, for a non-empty root
\* that ends with none of "/", "\" and ":", the parts are joined with "\".
C5_DerivedPaths ==
    (Emitted /\ eclipsedir # <<>>) =>
        /\ (system = "Linux" /\ Last(eclipsedir) # "/") =>
            /\ IncludeDir = eclipsedir \o <<"/", "include", "/">> \o arch
            /\ LibraryDir = eclipsedir \o <<"/", "lib", "/">> \o arch
        /\ (system = "Linux" /\ Last(eclipsedir) = "/") =>
            /\ IncludeDir = eclipsedir \o <<"include", "/">> \o arch
            /\ LibraryDir = eclipsedir \o <<"lib", "/">> \o arch
        /\ (system = "Windows" /\ Last(eclipsedir) \notin {"/", "\\", ":"}) =>
            /\ IncludeDir = eclipsedir \o <<"\\", "include", "\\">> \o arch
            /\ LibraryDir = eclipsedir \o <<"\\", "lib", "\\">> \o arch

C5_Witness ==
    /\ pc = "exit"
    /\ system = "Linux"
    /\ eclipsedir # <<>>
    /\ Last(eclipsedir) = "/"
    /\ IncludeDir = eclipsedir \o <<"include", "/", "i386_linux">>

\* ---- C6 ----------------------------------------------------------------
\* C6 as stated: with ECLIPSEDIR absent and an unsupported platform, the
\* failure is reached without the operator having been prompted for, or
\* having supplied, a root.
C6_Original ==
    (Interactive /\ pc = "raise") =>
        /\ stdin = <<>>
        /\ Count(stdout, PromptText) = 0

\* C6 amended: the stages run in the order root acquisition (with its path
\* validation), platform detection, path derivation, descriptor emission;
\* so with ECLIPSEDIR absent the unsupported-platform failure is raised
\* only after the operator has been prompted and has supplied a path that
\* exists, and with ECLIPSEDIR present it is raised without any prompt.
C6_StageOrder ==
    /\ system # NoSystem => eclipsedir # Undefined
    /\ eclise_include_path # Undefined => arch # Undefined
    /\ pyclp_module # NoModule => eclise_include_path # Undefined
    /\ (Interactive /\ pc = "raise") =>
        /\ stdin # <<>>
        /\ stdout[1] = PromptText
        /\ Last(exists_calls) = <<eclipsedir, TRUE>>
    /\ (~Interactive /\ pc = "raise") =>
        /\ stdin = <<>>
        /\ stdout = <<"Platform not supported">>

C6_Witness ==
    /\ Interactive
    /\ pc = "raise"
    /\ system = "Darwin"
    /\ stdin # <<>>

\* ---- C7 ----------------------------------------------------------------
\* C7: a root acquired without reading a line from the operator is always
\* a present and non-empty ECLIPSEDIR value; with ECLIPSEDIR absent or
\* empty the script goes through the prompt loop.
C7_EmptyMeansPrompt ==
    (RootAcquired /\ stdin = <<>>) =>
        /\ environ # Undefined
        /\ environ # <<>>

\* ---- C8 ----------------------------------------------------------------
\* C8: every emitted descriptor has the name 'pyclp.pyclp', the one source
\* 'src/pyclp/pyclp.pyx', two include dirs of which the second is
\* 'src/pyclp/', one library dir, the one library 'eclipse', and is a
\* function of the root and the architecture tag alone; setup() receives
\* exactly that descriptor.
C8_DescriptorShape ==
    Emitted =>
        /\ DOMAIN pyclp_module =
               {"name", "sources", "library_dirs", "libraries", "include_dirs"}
        /\ pyclp_module.name = "pyclp.pyclp"
        /\ pyclp_module.sources = <<"src/pyclp/pyclp.pyx">>
        /\ Len(pyclp_module.include_dirs) = 2
        /\ pyclp_module.include_dirs[2] = <<"src/pyclp/">>
        /\ Len(pyclp_module.library_dirs) = 1
        /\ pyclp_module.libraries = <<"eclipse">>
        /\ pyclp_module.include_dirs[1] =
               join(IF arch = <<"i386_nt">> THEN "Windows" ELSE "Linux",
                    eclipsedir, <<"include">>, arch)
        /\ pyclp_module.library_dirs[1] =
               join(IF arch = <<"i386_nt">> THEN "Windows" ELSE "Linux",
                    eclipsedir, <<"lib">>, arch)
        /\ pc = "exit" => ext_modules = <<pyclp_module>>

C8_Witness ==
    /\ pc = "exit"
    /\ ext_modules = <<pyclp_module>>
    /\ Len(pyclp_module.include_dirs) = 2

\* ---- C9 ----------------------------------------------------------------
\* C9: every step respects the order Start, AcquiringRoot, (RootAcquired)
\* DetectingPlatform, then Fatal or ArchResolved, then DescriptorEmitted:
\* DetectingPlatform is entered only from AcquiringRoot and with a root
\* bound, platform.system() is not consulted before that, Fatal is entered
\* only from DetectingPlatform, ArchResolved only from DetectingPlatform,
\* DescriptorEmitted only from ArchResolved and is never left, and the root
\* never changes once it is acquired.
C9_Step ==
    /\ Stage(pc) = "Start" => Stage(pc') = "AcquiringRoot"
    /\ (Stage(pc') = "AcquiringRoot" /\ Stage(pc) # "AcquiringRoot") =>
           Stage(pc) = "Start"
    /\ Stage(pc) \in {"Start", "AcquiringRoot"} => system = NoSystem
    /\ Stage(pc') = "DetectingPlatform" =>
        /\ Stage(pc) = "AcquiringRoot"
        /\ eclipsedir' # Undefined
        /\ system' = NoSystem
    /\ Stage(pc) = "DetectingPlatform" =>
           Stage(pc') \in {"Fatal", "ArchResolved"}
    /\ Stage(pc') = "Fatal" => Stage(pc) = "DetectingPlatform"
    /\ (Stage(pc') = "ArchResolved" /\ Stage(pc) # "ArchResolved") =>
           Stage(pc) = "DetectingPlatform"
    /\ Stage(pc) = "ArchResolved" =>
           Stage(pc') \in {"ArchResolved", "DescriptorEmitted"}
    /\ (Stage(pc') = "DescriptorEmitted" /\ Stage(pc) # "DescriptorEmitted") =>
           Stage(pc) = "ArchResolved"
    /\ Stage(pc) = "DescriptorEmitted" =>
        /\ Stage(pc') = "DescriptorEmitted"
        /\ pyclp_module' = pyclp_module
    /\ RootAcquired => eclipsedir' = eclipsedir

C9_StateOrder == [][C9_Step]_vars

C9_Witness ==
    /\ pc = "exit"
    /\ Interactive
    /\ system = "Windows"
    /\ eclipsedir = Last(stdin)

\* ---- C10 ---------------------------------------------------------------
\* C10 as stated (its last part): with ECLIPSEDIR absent, as long as the
\* operator has supplied no existing path the script is in the prompt loop
\* (or before it) and nowhere else.
C10_Original ==
    (Interactive /\ ~Accepted) => pc \in {"L34", "L36"}

\* C10 amended: resolution has four outcomes: descriptor emitted, fatal
\* platform error, blocked in the prompt loop, or aborted by the EOFError
\* that input() raises when the input stream ends.  If ECLIPSEDIR is
\* present, or once the operator has supplied an existing path, the script
\* eventually reaches the emitted descriptor or the fatal error; as long
\* as the operator has supplied no existing path it is in the prompt loop
\* or aborted by EOFError, and reaches neither; it comes to rest nowhere
\* but in one of these outcomes.
C10_Outcomes ==
    /\ (~Interactive \/ Accepted) ~> (pc \in {"exit", "raise"})
    /\ []((Interactive /\ ~Accepted) => pc \in {"L34", "L36", "EOFError"})
    /\ [](pc \in {"exit", "raise"} => (~Interactive \/ Accepted))
    /\ []((~ENABLED Next) => pc \in {"exit", "raise", "EOFError"})

C10_Witness ==
    /\ pc = "EOFError"
    /\ Interactive
    /\ Len(stdin) >= 1
    /\ ~Accepted
====
